---- MODULE Spec2Model ----
(***************************************************************************)
(* A model of the doonop crawl orchestration: Workload::start (the control *)
(* loop), the engine tasks it spawns, EngineRing, RetryPool, RobotsMap and *)
(* the URL cleaning done on the seed list and on discovered links.         *)
(*                                                                         *)
(* A URL is a triple <<domain, path, fragment>>; fragment 0 is "no         *)
(* fragment".  A raw link found on a page is an absolute URL (a triple), a *)
(* relative link <<path, fragment>> or an unparsable string <<>>.          *)
(***************************************************************************)
EXTENDS Naturals, Integers, Sequences, FiniteSets, TLC

\* ------------------------------------------------------------------ bounds
MaxCap == 2        \* ring capacities 1..MaxCap
MaxLimit == 1      \* artifact limits 1..MaxLimit, or no limit
MaxRetryCap == 2   \* retry caps 0..MaxRetryCap
MaxTime == 1       \* the clock runs 0..MaxTime; so does a delay within a handler

\* ---------------------------------------------------------------- the URLs
A == <<1, 0, 0>>
A1 == <<1, 0, 1>>
B == <<2, 0, 0>>

None == <<>>

Domains == {1, 2}
Paths == {0}

\* url::Url::set_fragment(None)
set_fragment_none(u) == <<u[1], u[2], 0>>

\* Ord for Url (derived from the serialization): lexicographic on the parts
UrlLess(u, v) ==
    \/ u[1] < v[1]
    \/ u[1] = v[1] /\ u[2] < v[2]
    \/ u[1] = v[1] /\ u[2] = v[2] /\ u[3] < v[3]

Last(s) == s[Len(s)]
Front(s) == SubSeq(s, 1, Len(s) - 1)

RECURSIVE Insert(_, _)
Insert(u, s) ==
    IF s = <<>> THEN <<u>>
    ELSE IF UrlLess(Head(s), u) THEN <<Head(s)>> \o Insert(u, Tail(s))
    ELSE <<u>> \o s

\* Vec::sort
RECURSIVE Sort(_)
Sort(s) == IF s = <<>> THEN <<>> ELSE Insert(Head(s), Sort(Tail(s)))

\* Vec::dedup: removes consecutive repeated elements
RECURSIVE Dedup(_)
Dedup(s) ==
    IF Len(s) < 2 THEN s
    ELSE IF s[1] = s[2] THEN Dedup(Tail(s))
    ELSE <<s[1]>> \o Dedup(Tail(s))

\* Filter::Domain(set): the set of allowed domains
Filter_Domain(set) == [kind |-> "domain", domains |-> set, matches |-> {}]

\* Filter::Regex(regex): the regex is the set of the URLs whose serialization,
\* fragment included, it matches
Filter_Regex(matches) == [kind |-> "regex", domains |-> {}, matches |-> matches]

\* Filter::is_ignored
is_ignored(f, u) ==
    IF f.kind = "regex" THEN u \in f.matches ELSE u[1] \notin f.domains

IgnoredByAny(filters, u) == \E i \in 1..Len(filters) : is_ignored(filters[i], u)

\* cfg::clean_urls
clean_urls(urls, filters) ==
    SelectSeq(Dedup(Sort(urls)), LAMBDA u : ~IgnoredByAny(filters, u))

\* engine::make_absolute_url
make_absolute_url(base, link) ==
    IF Len(link) = 3 THEN link
    ELSE IF Len(link) = 2 THEN <<base[1], link[1], link[2]>>
    ELSE None

\* a validate_links that removes the fragment before it asks the filters
RECURSIVE validate_links_strip_first(_, _, _)
validate_links_strip_first(base, links, filters) ==
    IF links = <<>> THEN <<>>
    ELSE LET l == make_absolute_url(base, Head(links))
             rest == validate_links_strip_first(base, Tail(links), filters)
         IN  IF l = None THEN rest
             ELSE IF IgnoredByAny(filters, set_fragment_none(l)) THEN rest
             ELSE <<set_fragment_none(l)>> \o rest

\* engine::validate_links
RECURSIVE validate_links(_, _, _)
validate_links(base, links, filters) ==
    IF links = <<>> THEN <<>>
    ELSE LET l == make_absolute_url(base, Head(links))
             rest == validate_links(base, Tail(links), filters)
         IN  IF l = None \/ IgnoredByAny(filters, l) THEN rest
             ELSE <<set_fragment_none(l)>> \o rest

\* ------------------------------------------------------------- RetryPool
\* RetryPool::new
RetryPool_new(fire_time, count_retries) ==
    [fire_time |-> fire_time, count_retries |-> count_retries,
     pool |-> <<>>, retry_count |-> <<>>]

\* HashMap entry(url).or_insert(0)
CountOf(rc, url) == IF url \in DOMAIN rc THEN rc[url] ELSE 0

\* the latest key taken for the first
LastKey(pool) == CHOOSE k \in DOMAIN pool : \A j \in DOMAIN pool : k >= j

\* BTreeMap first key
FirstKey(pool) == CHOOSE k \in DOMAIN pool : \A j \in DOMAIN pool : k <= j

\* the comparison made one attempt late
CapReachedLate(count, cap) == count > cap

\* `*count >= self.count_retries` of RetryPool::keep_retry
CapReached(count, cap) == count >= cap

\* a keep_retry that enqueues the URL whatever it answers
keep_retry_enqueue_always(rp, url, now) ==
    LET count == CountOf(rp.retry_count, url) + 1
        rc == [u \in DOMAIN rp.retry_count \cup {url} |->
                  IF u = url THEN count ELSE rp.retry_count[u]]
        old == IF now \in DOMAIN rp.pool THEN rp.pool[now] ELSE <<>>
        pool == [k \in DOMAIN rp.pool \cup {now} |->
                    IF k = now THEN Append(old, url) ELSE rp.pool[k]]
    IN  [ok |-> ~CapReached(count, rp.count_retries),
         rp |-> [rp EXCEPT !.retry_count = rc, !.pool = pool]]

\* RetryPool::keep_retry at time now: [ok, rp]
keep_retry(rp, url, now) ==
    LET count == CountOf(rp.retry_count, url) + 1
        rc == [u \in DOMAIN rp.retry_count \cup {url} |->
                  IF u = url THEN count ELSE rp.retry_count[u]]
        old == IF now \in DOMAIN rp.pool THEN rp.pool[now] ELSE <<>>
        pool == [k \in DOMAIN rp.pool \cup {now} |->
                    IF k = now THEN Append(old, url) ELSE rp.pool[k]]
    IN  IF CapReached(count, rp.count_retries)
        THEN [ok |-> FALSE, rp |-> [rp EXCEPT !.retry_count = rc]]
        ELSE [ok |-> TRUE, rp |-> [rp EXCEPT !.retry_count = rc, !.pool = pool]]

\* a bucket let through as soon as its age reaches the threshold
is_fired_at_threshold(elapsed, fire_time) == elapsed >= fire_time

\* `time.elapsed().unwrap() > self.fire_time` of RetryPool::get_url
is_fired(elapsed, fire_time) == elapsed > fire_time

\* a get_url that leaves the bucket it has drained in the map
RetryPool_get_url_keeps_bucket(rp, force, now) ==
    IF DOMAIN rp.pool = {} THEN [url |-> None, rp |-> rp]
    ELSE LET time == FirstKey(rp.pool)
             bucket == rp.pool[time]
         IN  IF ~(is_fired(now - time, rp.fire_time) \/ force)
             THEN [url |-> None, rp |-> rp]
             ELSE IF Len(bucket) = 0 THEN [url |-> None, rp |-> rp]
             ELSE [url |-> Last(bucket),
                   rp |-> [rp EXCEPT !.pool[time] = Front(bucket)]]

\* RetryPool::get_url at time now: [url, rp]
RetryPool_get_url(rp, force, now) ==
    IF DOMAIN rp.pool = {} THEN [url |-> None, rp |-> rp]
    ELSE LET time == FirstKey(rp.pool)
             bucket == rp.pool[time]
         IN  IF ~(is_fired(now - time, rp.fire_time) \/ force)
             THEN [url |-> None, rp |-> rp]
             ELSE IF Len(bucket) = 0 THEN [url |-> None, rp |-> rp]
             ELSE IF Len(bucket) = 1
             THEN [url |-> bucket[1],
                   rp |-> [rp EXCEPT !.pool =
                             [k \in DOMAIN rp.pool \ {time} |-> rp.pool[k]]]]
             ELSE [url |-> Last(bucket),
                   rp |-> [rp EXCEPT !.pool[time] = Front(bucket)]]

\* RetryPool::is_empty
RetryPool_is_empty(rp) == DOMAIN rp.pool = {}

\* ------------------------------------------------------------ EngineRing
\* EngineRing::new with a WebDriverEngineBuilder::new (id: 0); an engine is
\* known by its id
EngineRing_new(cap) ==
    [free_list |-> <<>>, usage_list |-> {}, cap |-> cap, builder |-> [id |-> 0]]

\* an obtain that does not record the idle engine it hands out again
obtain_unrecorded(ring, build_ok) ==
    IF ring.free_list # <<>>
    THEN [kind |-> "ok", engine |-> Last(ring.free_list),
          ring |-> [ring EXCEPT !.free_list = Front(ring.free_list)]]
    ELSE IF Cardinality(ring.usage_list) >= ring.cap
    THEN [kind |-> "panic", engine |-> 0, ring |-> ring]
    ELSE IF ~build_ok
    THEN [kind |-> "err", engine |-> 0, ring |-> ring]
    ELSE [kind |-> "ok", engine |-> ring.builder.id,
          ring |-> [ring EXCEPT !.builder.id = @ + 1,
                                !.usage_list = @ \cup {Cardinality(ring.usage_list)}]]

\* EngineRing::obtain; build_ok is the outcome of EngineBuilder::build.
\* [kind, engine, ring], kind "ok", "err" (build error) or "panic"
obtain(ring, build_ok) ==
    IF ring.free_list # <<>>
    THEN LET engine == Last(ring.free_list)
         IN  [kind |-> "ok", engine |-> engine,
              ring |-> [ring EXCEPT !.free_list = Front(ring.free_list),
                                    !.usage_list = @ \cup {engine}]]
    ELSE IF Cardinality(ring.usage_list) >= ring.cap
    THEN [kind |-> "panic", engine |-> 0, ring |-> ring]
    ELSE LET id == Cardinality(ring.usage_list)
         IN  IF ~build_ok
             THEN [kind |-> "err", engine |-> 0, ring |-> ring]
             ELSE [kind |-> "ok", engine |-> ring.builder.id,
                   ring |-> [ring EXCEPT !.builder.id = @ + 1,
                                         !.usage_list = @ \cup {id}]]

\* the engine marked idle but not kept
return_back_lost(ring, engine) == [ring EXCEPT !.usage_list = @ \ {engine}]

\* EngineRing::return_back
return_back(ring, engine) ==
    [ring EXCEPT !.usage_list = @ \ {engine}, !.free_list = Append(@, engine)]

\* EngineRing::count_engines_in_use
count_engines_in_use(ring) == Cardinality(ring.usage_list)

\* EngineRing::capacity
capacity(ring) == ring.cap

\* ------------------------------------------------------------- RobotsMap
Robot == "DoonopRobot"

\* RobotsMap::default
RobotsMap_default == [map |-> <<>>, files |-> <<>>]

\* RobotsVerifier::is_allowed: a verifier is the set of paths its compiled
\* robots.txt disallows for the robot
Verifier_is_allowed(verifier, url) == url[2] \notin verifier

\* a cache that never answers
is_cached_never(map, key) == FALSE

\* `self.map.get(&key)` of RobotsMap::is_allowed finds a verifier
is_cached(map, key) == key \in DOMAIN map

\* RobotsMap::is_allowed; fetched is the outcome of the GET of robots.txt:
\* [ok |-> FALSE] or [ok |-> TRUE, file |-> the disallowed paths].
\* [ok, allowed, ctrl]
RobotsMap_is_allowed(ctrl, robot, url, fetched) ==
    LET key == <<url[1], robot>>
    IN  IF is_cached(ctrl.map, key)
        THEN [ok |-> TRUE, allowed |-> Verifier_is_allowed(ctrl.map[key], url),
              ctrl |-> ctrl]
        ELSE IF robot \in DOMAIN ctrl.files
        THEN LET m == [k \in DOMAIN ctrl.map \cup {key} |->
                          IF k = key THEN ctrl.files[robot] ELSE ctrl.map[k]]
             IN  [ok |-> TRUE, allowed |-> Verifier_is_allowed(m[key], url),
                  ctrl |-> [ctrl EXCEPT !.map = m]]
        ELSE IF ~fetched.ok
        THEN [ok |-> FALSE, allowed |-> FALSE, ctrl |-> ctrl]
        ELSE LET m == [k \in DOMAIN ctrl.map \cup {key} |->
                          IF k = key THEN fetched.file ELSE ctrl.map[k]]
             IN  [ok |-> TRUE, allowed |-> Verifier_is_allowed(m[key], url),
                  ctrl |-> [ctrl EXCEPT !.map = m]]

\* -------------------------------------------------------------- Workload
\* Option<usize>
NoLimit == [some |-> FALSE, val |-> 0]
Some(n) == [some |-> TRUE, val |-> n]

\* Workload::new
Workload_new(ring, url_limit, retry_policy, retry_pool, use_robots, robot) ==
    [url_limit |-> url_limit, ring |-> ring, retry_policy |-> retry_policy,
     retry_pool |-> retry_pool, robot |-> robot, use_robot_check |-> use_robots,
     robot_ctrl |-> RobotsMap_default, urls_pool |-> <<>>, seen_list |-> {},
     spawned_jobs |-> {}]

\* Workload::filter_urls: [r, w]
RECURSIVE filter_urls(_, _)
filter_urls(w, urls) ==
    IF urls = <<>> THEN [r |-> <<>>, w |-> w]
    ELSE LET url == Head(urls)
             fresh == url \notin w.seen_list
             rest == filter_urls([w EXCEPT !.seen_list = @ \cup {url}], Tail(urls))
         IN  [r |-> IF fresh THEN <<url>> \o rest.r ELSE rest.r, w |-> rest.w]

\* Workload::keep_urls
keep_urls(w, urls) ==
    LET f == filter_urls(w, urls)
    IN  [f.w EXCEPT !.urls_pool = @ \o f.r]

\* Workload::inc_limit: [hit, w]
inc_limit(w) ==
    IF ~w.url_limit.some THEN [hit |-> FALSE, w |-> w]
    ELSE IF w.url_limit.val = 0 THEN [hit |-> TRUE, w |-> w]
    ELSE [hit |-> w.url_limit.val - 1 = 0,
          w |-> [w EXCEPT !.url_limit.val = @ - 1]]

\* Workload::mark_visited
mark_visited(w, url) == [w EXCEPT !.seen_list = @ \cup {url}]

\* Vec::pop on urls_pool: [url, w]
pop_url(w) ==
    IF w.urls_pool = <<>> THEN [url |-> None, w |-> w]
    ELSE [url |-> Last(w.urls_pool), w |-> [w EXCEPT !.urls_pool = Front(@)]]

\* a retry that is always forced
get_url_force_always(wl) == TRUE

\* a retry that is never forced
get_url_force_never(wl) == FALSE

\* the `force` argument Workload::get_url passes to RetryPool::get_url
get_url_force(wl) == wl.urls_pool = <<>>

\* Workload::get_url at time now: [url, w]
get_url(w, now) ==
    CASE w.retry_policy = "No" -> pop_url(w)
      [] w.retry_policy = "RetryFirst" ->
            LET g == RetryPool_get_url(w.retry_pool, get_url_force(w), now)
            IN  IF g.url # None
                THEN [url |-> g.url, w |-> [w EXCEPT !.retry_pool = g.rp]]
                ELSE pop_url(w)
      [] w.retry_policy = "RetryLast" ->
            LET p == pop_url(w)
            IN  IF p.url # None THEN p
                ELSE LET g == RetryPool_get_url(p.w.retry_pool, get_url_force(p.w), now)
                     IN  [url |-> g.url, w |-> [p.w EXCEPT !.retry_pool = g.rp]]

\* Workload::is_any_urls
is_any_urls(w) == ~(RetryPool_is_empty(w.retry_pool) /\ w.urls_pool = <<>>)

\* a slot taken to be free whatever was spawned
is_there_free_engine_always(w) == TRUE

\* Workload::is_there_free_engine
is_there_free_engine(w) == capacity(w.ring) > Cardinality(w.spawned_jobs)

\* Workload::spawn_engines; fail_at is the number of the EngineBuilder::build
\* call of this pass that fails (0: none fails), n the builds made so far.
\* [kind, w, spawned]: kind "ok", "err" or "panic", spawned the ids of the
\* engines handed to spawn_engine in this pass
RECURSIVE spawn_engines(_, _, _)
spawn_engines(w, fail_at, n) ==
    IF ~(is_there_free_engine(w) /\ is_any_urls(w))
    THEN [kind |-> "ok", w |-> w, spawned |-> {}]
    ELSE LET o == obtain(w.ring, fail_at # n + 1)
         IN  IF o.kind # "ok" THEN [kind |-> o.kind, w |-> w, spawned |-> {}]
             ELSE LET rest == spawn_engines(
                                [w EXCEPT !.ring = o.ring,
                                          !.spawned_jobs = @ \cup {o.engine}],
                                fail_at, n + 1)
                  IN  [rest EXCEPT !.spawned = @ \cup {o.engine}]

\* every answer but an error admits the URL
is_ok(a) == a.ok

\* `if let Ok(true) = self.robot_ctrl.is_allowed(..)` of Workload::start
is_ok_true(a) == a.ok /\ a.allowed

\* The loop `while let Some(url) = self.get_url()` of Workload::start:
\* every URL get_url yields is sent on the URL channel, after the robots
\* check when it is enabled.  st is [w, q, job_counter, panic, rejected]; q
\* the queue of the URL channel and rejected the URLs is_allowed answered
\* with Ok(false) or an error; robots_txt the robots.txt each domain serves
\* and failing the URLs whose robots.txt GET fails.
RECURSIVE fill(_, _, _, _, _)
fill(st, closed, robots_txt, failing, now) ==
    LET g == get_url(st.w, now)
        sent == [st EXCEPT !.w = g.w, !.q = Append(@, g.url),
                           !.job_counter = @ + 1, !.panic = @ \/ closed]
    IN  IF g.url = None THEN st
        ELSE IF g.w.use_robot_check
        THEN LET a == RobotsMap_is_allowed(
                        g.w.robot_ctrl, g.w.robot, g.url,
                        IF g.url \in failing THEN [ok |-> FALSE]
                        ELSE [ok |-> TRUE, file |-> robots_txt[g.url[1]]])
                 w1 == [g.w EXCEPT !.robot_ctrl = a.ctrl]
                 rj == IF a.ok /\ a.allowed THEN st.rejected
                       ELSE st.rejected \cup {g.url}
             IN  IF is_ok_true(a)
                 THEN fill([sent EXCEPT !.w = w1, !.rejected = rj],
                           closed, robots_txt, failing, now)
                 ELSE fill([st EXCEPT !.w = w1, !.rejected = rj],
                           closed, robots_txt, failing, now)
        ELSE fill(sent, closed, robots_txt, failing, now)

\* ------------------------------------------------------- the environment
AllUrls == {A, A1, B}

Null == <<>>

\* the raw link lists a page can hold: none, or an absolute link with a
\* fragment, a relative link and an unparsable link
LinkChoices == { <<>>, <<A1, <<0, 2>>, <<>> >> }

\* Backend::search(url): Ok(SearchResult {urls, data}) with data null or the
\* page's address, a timeout error carrying the address, or another error
Responses(url) ==
    {[kind |-> "ok", links |-> l, data |-> url] : l \in LinkChoices}
        \cup {[kind |-> "ok", links |-> <<>>, data |-> Null],
              [kind |-> "timeout", links |-> <<>>, data |-> Null],
              [kind |-> "error", links |-> <<>>, data |-> Null]}

\* Engine::run: the search followed by the post-processing of the links
Engine_run(engine, url, resp, fs) ==
    [engine |-> engine, kind |-> resp.kind, url |-> url,
     urls |-> IF resp.kind = "ok" THEN validate_links(url, resp.links, fs) ELSE <<>>,
     data |-> resp.data]

\* the robots.txt files the sites can serve: the paths disallowed per domain
RobotsWorlds ==
    { [d \in Domains |-> {}], [d \in Domains |-> Paths],
      [d \in Domains |-> IF d = 1 THEN Paths ELSE {}] }

\* the command lines: the URL arguments as given and the domain filters
Inputs ==
    { [urls |-> <<>>, filters |-> <<>>],
      [urls |-> <<A1>>, filters |-> <<>>],
      [urls |-> <<B, A, B>>, filters |-> <<>>],
      [urls |-> <<B, A>>, filters |-> << Filter_Domain({2}) >>] }

\* a command line that names one address twice, under two fragments
FragmentInputs == { [urls |-> <<A1, A>>, filters |-> <<>>] }

\* the retry thresholds (RetryPool::fire_time)
FireTimes == {0}

Policies == {"No", "RetryFirst", "RetryLast"}

\* --limit: none, or 1..MaxLimit (a limit of 0 closes intake at the first
\* artifact, as a limit of 1 does)
Limits == {NoLimit} \cup {Some(n) : n \in 1..MaxLimit}

\* Statistics::default
Statistics_default ==
    [count_errors |-> 0, count_retries |-> 0, count_visited |-> 0,
     count_collected |-> 0]

\* ------------------------------------------------------------- the state
VARIABLES
    seed,        \* the argument of Workload::start
    filters,     \* the filters the engines are built with
    robots_txt,  \* the robots.txt of each domain
    w,           \* the Workload (self)
    s_urls,      \* the URL channel (s_urls / r_urls): [q, closed]
    r_result,    \* the completion channel (s_result / r_result): [engine, url]
    job_counter, stats, results, is_closed,  \* the locals of start
    pc,          \* where start is: "start", "loop", "join", "done", "panic";
                 \* "pool" when the RetryPool is driven directly, "robots"
                 \* when the RobotsMap is, "ring" when the EngineRing is,
                 \* "filter" when a Filter is, "links" when validate_links is,
                 \* "shed" and "pool" when the Sheduler of shed.rs is
    ret,         \* what start returned
    tasks,       \* the task of each spawned engine: "recv", "closed", "panic"
    running,     \* the fetches in Engine::run: [engine, url]
    notify,      \* the permit stored in the Notify
    clock,       \* SystemTime::now
    op,          \* the last RetryPool call made directly and what it returned
    dispatched,  \* history: how often each URL was taken by an engine
    requeued,    \* history: how often keep_retry accepted each URL
    limit_hit,   \* history: inc_limit has returned true
    cancelled,   \* history: the notified branch has run
    received,    \* history: how many results of each kind the loop received
    rejected     \* history: the URLs the robots check did not admit

vars == <<seed, filters, robots_txt, w, s_urls, r_result, job_counter, stats,
          results, is_closed, pc, ret, tasks, running, notify, clock,
          op, dispatched, requeued, limit_hit, cancelled, received, rejected>>

conf == <<seed, filters, robots_txt, op>>
hist == <<dispatched, requeued, limit_hit, cancelled, received, rejected>>

InitWith(at, input, cap, limit, policy, fire, retries, robots, txt) ==
    /\ seed = clean_urls(input.urls, input.filters)
    /\ filters = input.filters
    /\ robots_txt = txt
    /\ w = Workload_new(EngineRing_new(cap), limit, policy,
                        RetryPool_new(fire, retries), robots, Robot)
    /\ s_urls = [q |-> <<>>, closed |-> FALSE]
    /\ r_result = <<>>
    /\ job_counter = 0
    /\ stats = Statistics_default
    /\ results = <<>>
    /\ is_closed = FALSE
    /\ pc = at
    /\ ret = [kind |-> "none", results |-> <<>>, stats |-> Statistics_default]
    /\ tasks = <<>>
    /\ running = {}
    /\ notify = FALSE
    /\ clock = 0
    /\ op = [name |-> "none"]
    /\ dispatched = [u \in AllUrls |-> 0]
    /\ requeued = [u \in AllUrls |-> 0]
    /\ limit_hit = FALSE
    /\ cancelled = FALSE
    /\ received = [ok |-> 0, timeout |-> 0, error |-> 0]
    /\ rejected = {}

\* The crawl configurations.  Without retries the cap is never read, and
\* without the robots check no robots.txt is: one value stands for all.
Configs ==
    {c \in [input : Inputs \cup FragmentInputs, cap : 1..MaxCap, limit : Limits, policy : Policies,
            fire : FireTimes, retries : 0..MaxRetryCap, robots : BOOLEAN,
            txt : RobotsWorlds] :
        /\ c.policy = "No" => c.retries = 0
        /\ ~c.robots => c.txt = [d \in Domains |-> {}]}

InitOf(c) ==
    InitWith("start", c.input, c.cap, c.limit, c.policy, c.fire, c.retries,
             c.robots, c.txt)

\* crawls without the robots check
Init == \E c \in Configs : c.input \in Inputs /\ ~c.robots /\ InitOf(c)

\* crawls with the robots check, without an artifact limit
InitRobots ==
    \E c \in Configs : c.input \in Inputs /\ c.robots /\ ~c.limit.some /\ InitOf(c)

\* crawls of an address named twice, without the robots check
InitFragments == \E c \in Configs : c.input \in FragmentInputs /\ ~c.robots /\ InitOf(c)

\* ----------------------------------------------------------- the actions
\* the URLs waiting in the frontier or in the retry pool
Waiting(wl) ==
    {wl.urls_pool[i] : i \in 1..Len(wl.urls_pool)}
        \cup UNION {{wl.retry_pool.pool[k][i] : i \in 1..Len(wl.retry_pool.pool[k])} :
                       k \in DOMAIN wl.retry_pool.pool}

\* the robots.txt GETs that can fail in one pass: those of the waiting URLs
\* whose verifier is not cached
RobotsFailures(wl) ==
    IF wl.use_robot_check
    THEN SUBSET {u \in Waiting(wl) : <<u[1], wl.robot>> \notin DOMAIN wl.robot_ctrl.map}
    ELSE {{}}

\* the EngineBuilder::build calls that can fail in one spawn_engines pass
\* (0: none)
BuildFailures(wl) ==
    IF is_there_free_engine(wl) /\ is_any_urls(wl)
    THEN 0..(capacity(wl.ring) - Cardinality(wl.spawned_jobs)) ELSE {0}

\* tokio::spawn of spawn_engine for the engines of one spawn_engines pass
Spawned(ts, ids) == [e \in DOMAIN ts \cup ids |-> IF e \in ids THEN "recv" ELSE ts[e]]

\* the loop left while one job is still counted
IsDrainedEarly(jc) == jc <= 1

\* `if job_counter == 0` of Workload::start
IsDrained(jc) == jc = 0

Returned(kind, rs, st) == [kind |-> kind, results |-> rs, stats |-> st]

\* a failed build taken for a success
is_err_never(kind) == FALSE

\* `if let Err(err) = self.spawn_engines(..)` of Workload::start
is_err(kind) == kind = "err"

\* every timeout retried, whatever the policy
is_retryable_any_policy(kind, policy) == kind = "timeout"

\* every failure retried
is_retryable_any_error(kind, policy) == kind # "ok" /\ policy # "No"

\* `Err(err) if err.is_timeout() && self.retry_policy != RetryPolicy::No`
is_retryable(kind, policy) == kind = "timeout" /\ policy # "No"

\* the limit consumed by every result
consumes_limit_always(kind) == TRUE

\* inc_limit is called in the `Ok((urls, data))` arm only
consumes_limit(kind) == kind = "ok"

\* the value put in front of the list
push_front(v, x) == <<x>> \o v

\* `results.push(data)` of Workload::start
push(v, x) == Append(v, x)

\* the early return skipped
is_empty_never(s) == FALSE

\* `seed.is_empty()` of Workload::start
is_empty(s) == s = <<>>

\* Workload::start up to the select loop: the empty-seed return, keep_urls,
\* the first spawn_engines and the first pass over get_url
Start ==
    /\ pc = "start"
    /\ IF is_empty(seed)
       THEN /\ pc' = "done"
            /\ ret' = Returned("empty_seed", <<>>, Statistics_default)
            /\ UNCHANGED <<w, s_urls, job_counter, tasks, rejected>>
       ELSE \E w0 \in {keep_urls(w, seed)} :
            \E fail_at \in BuildFailures(w0), failing \in RobotsFailures(w0) :
            \E sp \in {spawn_engines(w0, fail_at, 0)} :
            \E st \in {IF sp.kind # "ok"
                       THEN [w |-> sp.w, q |-> s_urls.q, job_counter |-> 0,
                             panic |-> FALSE, rejected |-> rejected]
                       ELSE fill([w |-> sp.w, q |-> s_urls.q, job_counter |-> 0,
                                  panic |-> FALSE, rejected |-> rejected],
                                 s_urls.closed, robots_txt, failing, clock)} :
                  /\ tasks' = Spawned(tasks, sp.spawned)
                  /\ rejected' = st.rejected
                  /\ CASE is_err(sp.kind) ->
                            /\ pc' = "done"
                            /\ ret' = Returned("build_error", <<>>, Statistics_default)
                            /\ w' = sp.w
                            /\ s_urls' = [s_urls EXCEPT !.closed = TRUE]
                            /\ UNCHANGED job_counter
                       [] sp.kind = "panic" ->
                            /\ pc' = "panic"
                            /\ w' = sp.w
                            /\ s_urls' = [s_urls EXCEPT !.closed = TRUE]
                            /\ UNCHANGED <<ret, job_counter>>
                       [] OTHER ->
                            /\ pc' = "loop"
                            /\ w' = st.w
                            /\ s_urls' = [s_urls EXCEPT !.q = st.q]
                            /\ job_counter' = st.job_counter
                            /\ UNCHANGED ret
    /\ UNCHANGED <<conf, r_result, stats, results, is_closed, running, notify,
                   clock, dispatched, requeued, limit_hit, cancelled, received>>

\* a count that leaves a retried timeout out of count_visited
count_completion_unvisited(st, isok, isretry) ==
    [st EXCEPT !.count_visited = IF isretry THEN @ ELSE @ + 1,
               !.count_collected = IF isok THEN @ + 1 ELSE @,
               !.count_retries = IF isretry THEN @ + 1 ELSE @,
               !.count_errors = IF ~isok /\ ~isretry THEN @ + 1 ELSE @]

\* the counters of Workload::start after one completion: count_visited and
\* the counter of the arm of the match that is taken
count_completion(st, isok, isretry) ==
    [st EXCEPT !.count_visited = @ + 1,
               !.count_collected = IF isok THEN @ + 1 ELSE @,
               !.count_retries = IF isretry THEN @ + 1 ELSE @,
               !.count_errors = IF ~isok /\ ~isretry THEN @ + 1 ELSE @]

\* The r_result.recv() branch of the select: one completion is counted,
\* its URLs or its failure are recorded, the engines and the URL channel
\* are refilled unless intake is closed, and the loop ends when no job is
\* left.  dt is the time that passes between keep_retry and the refill; the
\* refill leaves the retry pool empty, so that no later step can tell what
\* the clock read, and the clock is left as it was.
RecvResult ==
    /\ pc = "loop"
    /\ r_result # <<>>
    /\ \E resp \in Responses(Head(r_result).url) :
       LET msg == Engine_run(Head(r_result).engine, Head(r_result).url, resp, filters)
           isok == msg.kind = "ok"
           isretry == is_retryable(msg.kind, w.retry_policy)
           lim == IF consumes_limit(msg.kind) THEN inc_limit(w)
                  ELSE [hit |-> FALSE, w |-> w]
           kr == keep_retry(lim.w.retry_pool, msg.url, clock)
           closed1 == is_closed \/ lim.hit
       IN
       \E w1 \in {IF isok THEN keep_urls(lim.w, msg.urls)
                  ELSE IF ~isretry THEN lim.w
                  ELSE IF kr.ok THEN [lim.w EXCEPT !.retry_pool = kr.rp]
                  ELSE mark_visited([lim.w EXCEPT !.retry_pool = kr.rp], msg.url)} :
       \E fail_at \in IF closed1 THEN {0} ELSE BuildFailures(w1),
          failing \in IF closed1 THEN {{}} ELSE RobotsFailures(w1),
          dt \in IF closed1 \/ ~isretry \/ ~kr.ok THEN {0} ELSE 0..MaxTime :
       \E sp \in {IF closed1 THEN [kind |-> "ok", w |-> w1, spawned |-> {}]
                  ELSE spawn_engines(w1, fail_at, 0)} :
       \E st \in {IF closed1 \/ sp.kind # "ok"
                  THEN [w |-> sp.w, q |-> s_urls.q, job_counter |-> job_counter - 1,
                        panic |-> FALSE, rejected |-> rejected]
                  ELSE fill([w |-> sp.w, q |-> s_urls.q,
                             job_counter |-> job_counter - 1, panic |-> FALSE,
                             rejected |-> rejected],
                            s_urls.closed, robots_txt, failing, clock + dt)} :
         LET stats1 == count_completion(stats, isok, isretry)
             results1 == IF isok THEN push(results, msg.data) ELSE results
         IN  /\ r_result' = Tail(r_result)
             /\ tasks' = Spawned(tasks, sp.spawned)
             /\ w' = st.w
             /\ requeued' = IF isretry /\ kr.ok
                            THEN [requeued EXCEPT ![msg.url] = @ + 1] ELSE requeued
             /\ limit_hit' = (limit_hit \/ lim.hit)
             /\ received' = [received EXCEPT ![msg.kind] = @ + 1]
             /\ rejected' = st.rejected
             /\ CASE job_counter = 0 \/ sp.kind = "panic" \/ st.panic ->
                       /\ pc' = "panic"
                       /\ s_urls' = [s_urls EXCEPT !.closed = TRUE]
                       /\ UNCHANGED <<ret, job_counter, stats, results, is_closed>>
                  [] is_err(sp.kind) ->
                       /\ pc' = "done"
                       /\ ret' = Returned("build_error", <<>>, Statistics_default)
                       /\ s_urls' = [s_urls EXCEPT !.closed = TRUE]
                       /\ stats' = stats1 /\ results' = results1
                       /\ is_closed' = closed1
                       /\ job_counter' = st.job_counter
                  [] OTHER ->
                       /\ stats' = stats1 /\ results' = results1
                       /\ is_closed' = closed1
                       /\ job_counter' = st.job_counter
                       /\ IF IsDrained(st.job_counter)
                          THEN /\ pc' = "join"
                               /\ s_urls' = [q |-> st.q, closed |-> TRUE]
                               /\ UNCHANGED ret
                          ELSE IF st.w.spawned_jobs = {}
                          THEN /\ pc' = "done"
                               /\ s_urls' = [q |-> st.q, closed |-> TRUE]
                               /\ ret' = Returned("ok", results1, stats1)
                          ELSE /\ pc' = "loop"
                               /\ s_urls' = [s_urls EXCEPT !.q = st.q]
                               /\ UNCHANGED ret
    /\ UNCHANGED <<conf, running, notify, clock, dispatched, cancelled>>

\* a close that panics on a channel closed before
NotifiedClosingTwice ==
    /\ pc = "loop"
    /\ notify
    /\ notify' = FALSE
    /\ is_closed' = TRUE
    /\ s_urls' = [s_urls EXCEPT !.closed = TRUE]
    /\ cancelled' = TRUE
    /\ pc' = IF s_urls.closed THEN "panic" ELSE pc
    /\ UNCHANGED <<conf, w, r_result, job_counter, stats, results, ret,
                   tasks, running, clock, dispatched, requeued, limit_hit,
                   received, rejected>>

\* The notify.notified() branch of the select
Notified ==
    /\ pc = "loop"
    /\ notify
    /\ notify' = FALSE
    /\ is_closed' = TRUE
    /\ s_urls' = [s_urls EXCEPT !.closed = TRUE]
    /\ cancelled' = TRUE
    /\ UNCHANGED <<conf, w, r_result, job_counter, stats, results, pc, ret,
                   tasks, running, clock, dispatched, requeued, limit_hit,
                   received, rejected>>

\* a return that does not wait for the tasks
ReturnUnjoined ==
    /\ pc = "join"
    /\ pc' = "done"
    /\ ret' = Returned("ok", results, stats)
    /\ UNCHANGED <<conf, hist, w, s_urls, r_result, job_counter, stats, results,
                   is_closed, tasks, running, notify, clock>>

\* `for (_, f) in self.spawned_jobs { f.await }`, the break and the return
Return ==
    /\ pc = "join"
    /\ \A e \in w.spawned_jobs : tasks[e] = "closed"
    /\ pc' = "done"
    /\ ret' = Returned("ok", results, stats)
    /\ UNCHANGED <<conf, hist, w, s_urls, r_result, job_counter, stats, results,
                   is_closed, tasks, running, notify, clock>>

\* The caller fires the cancellation signal (Notify::notify_one) while start
\* runs; a signal fired before the select loop is reached is a permit the
\* first select finds, as is one fired at the start of the loop
Cancel ==
    /\ pc = "loop"
    /\ ~notify
    /\ notify' = TRUE
    /\ UNCHANGED <<conf, hist, w, s_urls, r_result, job_counter, stats, results,
                   is_closed, pc, ret, tasks, running, clock>>

\* a task that receives while its fetch runs
EngineIdleAlways(e) == TRUE

\* an engine task runs one fetch at a time: it is back at receiver.recv()
\* only after the result of its last Engine::run was sent
EngineIdle(e) == \A r \in running : r.engine # e

\* a task that counts the page it takes as visited
EngineRecvCounting(e) ==
    /\ tasks[e] = "recv"
    /\ EngineIdle(e)
    /\ s_urls.q # <<>>
    /\ s_urls' = [s_urls EXCEPT !.q = Tail(@)]
    /\ running' = running \cup {[engine |-> e, url |-> Head(s_urls.q)]}
    /\ dispatched' = [dispatched EXCEPT ![Head(s_urls.q)] = @ + 1]
    /\ stats' = [stats EXCEPT !.count_visited = @ + 1]
    /\ UNCHANGED <<conf, w, r_result, job_counter, results, is_closed, pc,
                   ret, tasks, notify, clock, requeued, limit_hit, cancelled,
                   received, rejected>>

\* a task that reads the URL and leaves it in the channel
EngineRecvPeek(e) ==
    /\ tasks[e] = "recv"
    /\ EngineIdle(e)
    /\ s_urls.q # <<>>
    /\ running' = running \cup {[engine |-> e, url |-> Head(s_urls.q)]}
    /\ dispatched' = [dispatched EXCEPT ![Head(s_urls.q)] = @ + 1]
    /\ UNCHANGED <<conf, w, s_urls, r_result, job_counter, stats, results,
                   is_closed, pc, ret, tasks, notify, clock, requeued, limit_hit,
                   cancelled, received, rejected>>

\* spawn_engine: `while let Ok(url) = receiver.recv().await`
EngineRecv(e) ==
    /\ tasks[e] = "recv"
    /\ EngineIdle(e)
    /\ s_urls.q # <<>>
    /\ s_urls' = [s_urls EXCEPT !.q = Tail(@)]
    /\ running' = running \cup {[engine |-> e, url |-> Head(s_urls.q)]}
    /\ dispatched' = [dispatched EXCEPT ![Head(s_urls.q)] = @ + 1]
    /\ UNCHANGED <<conf, w, r_result, job_counter, stats, results, is_closed, pc,
                   ret, tasks, notify, clock, requeued, limit_hit, cancelled,
                   received, rejected>>

\* spawn_engine: engine.run(url) ends and its result is sent; the send
\* fails, and the unwrap panics, once start has dropped r_result.  What the
\* backend answered is drawn when the control loop receives the message:
\* the task does not read it.
EngineFinish(e) ==
    \E r \in running :
        /\ r.engine = e
        /\ running' = running \ {r}
        /\ IF pc \in {"done", "panic"}
           THEN /\ tasks' = [tasks EXCEPT ![e] = "panic"]
                /\ UNCHANGED r_result
           ELSE /\ r_result' = Append(r_result, r)
                /\ UNCHANGED tasks
        /\ UNCHANGED <<conf, hist, w, s_urls, job_counter, stats, results,
                       is_closed, pc, ret, notify, clock>>

\* spawn_engine: recv fails on the closed and empty channel, the loop ends
\* and the backend is closed
EngineClose(e) ==
    /\ tasks[e] = "recv"
    /\ EngineIdle(e)
    /\ s_urls.closed
    /\ s_urls.q = <<>>
    /\ tasks' = [tasks EXCEPT ![e] = "closed"]
    /\ UNCHANGED <<conf, hist, w, s_urls, r_result, job_counter, stats, results,
                   is_closed, pc, ret, running, notify, clock>>

\* the tasks tokio::spawn runs
Engine ==
    \/ \E e \in DOMAIN tasks : EngineRecv(e)
    \/ \E e \in DOMAIN tasks : EngineFinish(e)
    \/ \E e \in DOMAIN tasks : EngineClose(e)

Program == Engine \/ Return \/ Notified \/ Start \/ RecvResult

Next == Program \/ Cancel

Spec == Init /\ [][Next]_vars

SpecRobots == InitRobots /\ [][Next]_vars

SpecFragments == InitFragments /\ [][Next]_vars

\* ------------------------------------------- the RetryPool driven directly
\* the calls made for one URL
MaxCalls == MaxRetryCap + 2

InitRetry ==
    \E fire \in 0..MaxTime, retries \in 0..(MaxRetryCap + 1) :
        InitWith("pool", [urls |-> <<>>, filters |-> <<>>], 1, NoLimit, "No", fire,
                 retries, FALSE, [d \in Domains |-> {}])

\* RetryPool::keep_retry(url)
KeepRetry(url) ==
    /\ pc = "pool"
    /\ CountOf(w.retry_pool.retry_count, url) < MaxCalls
    /\ LET r == keep_retry(w.retry_pool, url, clock)
       IN  /\ w' = [w EXCEPT !.retry_pool = r.rp]
           /\ op' = [name |-> "keep_retry", url |-> url, ok |-> r.ok]
           /\ requeued' = IF r.ok THEN [requeued EXCEPT ![url] = @ + 1] ELSE requeued
    /\ UNCHANGED <<seed, filters, robots_txt, s_urls, r_result, job_counter, stats,
                   results, is_closed, pc, ret, tasks, running, notify, clock,
                   dispatched, limit_hit, cancelled, received, rejected>>

\* RetryPool::get_url(force)
GetUrl(force) ==
    /\ pc = "pool"
    /\ LET r == RetryPool_get_url(w.retry_pool, force, clock)
       IN  /\ w' = [w EXCEPT !.retry_pool = r.rp]
           /\ op' = [name |-> "get_url", force |-> force, url |-> r.url]
    /\ UNCHANGED <<seed, filters, robots_txt, s_urls, r_result, job_counter, stats,
                   results, is_closed, pc, ret, tasks, running, notify, clock, hist>>

\* time passes
Tick ==
    /\ pc = "pool"
    /\ clock < MaxTime
    /\ clock' = clock + 1
    /\ UNCHANGED <<conf, hist, w, s_urls, r_result, job_counter, stats, results,
                   is_closed, pc, ret, tasks, running, notify>>

NextRetry ==
    \/ \E url \in {A, B} : KeepRetry(url)
    \/ \E force \in BOOLEAN : GetUrl(force)
    \/ Tick

SpecRetry == InitRetry /\ [][NextRetry]_vars

\* ------------------------------- the RetryPool test `get` (retry.rs 66-85)
\* the three URLs of the test, in the order keep_retry is called for them
Order == <<A, A1, B>>

\* RetryPool::new(Duration::new(0, 0), 2)
InitOrder ==
    InitWith("pool", [urls |-> <<>>, filters |-> <<>>], 1, NoLimit, "No", 0, 2,
             FALSE, [d \in Domains |-> {}])

\* the keep_retry calls made so far
Kept == Cardinality(DOMAIN w.retry_pool.retry_count)

\* pool.keep_retry(url) for the next URL of the test
KeepNext == Kept < Len(Order) /\ KeepRetry(Order[Kept + 1])

\* pool.get_url(false), once the three URLs are kept
GetNext == Kept = Len(Order) /\ GetUrl(FALSE)

\* time passes between two calls
Pass ==
    /\ pc = "pool"
    /\ clock < MaxTime + Len(Order)
    /\ clock' = clock + 1
    /\ UNCHANGED <<conf, hist, w, s_urls, r_result, job_counter, stats, results,
                   is_closed, pc, ret, tasks, running, notify>>

NextOrder == KeepNext \/ GetNext \/ Pass

SpecOrder == InitOrder /\ [][NextOrder]_vars

\* -------------------------------------- Workload::get_url driven directly
\* a Workload of each retry policy, its frontier and its retry pool empty
InitGetUrl ==
    \E policy \in Policies, fire \in 0..MaxTime :
        InitWith("pool", [urls |-> <<>>, filters |-> <<>>], 1, NoLimit, policy, fire,
                 MaxRetryCap + 1, FALSE, [d \in Domains |-> {}])

\* Workload::keep_urls(vec![url])
KeepUrls(url) ==
    /\ pc = "pool"
    /\ w' = keep_urls(w, <<url>>)
    /\ UNCHANGED <<op, seed, filters, robots_txt, s_urls, r_result, job_counter, stats,
                   results, is_closed, pc, ret, tasks, running, notify, clock, hist>>

\* Workload::get_url(); the call is recorded with what it found in the
\* frontier and the pool its URL was taken from
WorkloadGetUrl ==
    /\ pc = "pool"
    /\ LET g == get_url(w, clock)
       IN  /\ w' = g.w
           /\ op' = [name |-> "Workload::get_url", url |-> g.url,
                     frontier_empty |-> w.urls_pool = <<>>,
                     from |-> IF g.w.retry_pool # w.retry_pool THEN "retry"
                              ELSE IF g.w.urls_pool # w.urls_pool THEN "frontier"
                              ELSE "none"]
    /\ UNCHANGED <<seed, filters, robots_txt, s_urls, r_result, job_counter, stats,
                   results, is_closed, pc, ret, tasks, running, notify, clock, hist>>

NextGetUrl ==
    \/ \E url \in {A, B} : KeepUrls(url)
    \/ \E url \in {A, B} :
          CountOf(w.retry_pool.retry_count, url) < MaxRetryCap /\ KeepRetry(url)
    \/ Tick
    \/ WorkloadGetUrl

SpecGetUrl == InitGetUrl /\ [][NextGetUrl]_vars

\* ---------------------------------- RobotsMap::is_allowed driven directly
\* the robot names the lookups are made for
Robots == {Robot, "*"}

\* what the GET of a robots.txt can give at one call: an error, or a file
\* (the sites may change their file between two calls)
Fetches == {[ok |-> FALSE]} \cup {[ok |-> TRUE, file |-> f] : f \in SUBSET Paths}

InitRobotsMap ==
    InitWith("robots", [urls |-> <<>>, filters |-> <<>>], 1, NoLimit, "No", 0, 0,
             TRUE, [d \in Domains |-> {}])

\* RobotsMap::is_allowed(robot, url)
IsAllowed(robot, url, fetched) ==
    /\ pc = "robots"
    /\ LET r == RobotsMap_is_allowed(w.robot_ctrl, robot, url, fetched)
       IN  /\ w' = [w EXCEPT !.robot_ctrl = r.ctrl]
           /\ op' = [name |-> "is_allowed", robot |-> robot, url |-> url,
                     ok |-> r.ok, allowed |-> r.ok /\ r.allowed,
                     cached |-> <<url[1], robot>> \in DOMAIN w.robot_ctrl.map]
    /\ UNCHANGED <<seed, filters, robots_txt, s_urls, r_result, job_counter, stats,
                   results, is_closed, pc, ret, tasks, running, notify, clock, hist>>

NextRobotsMap ==
    \E robot \in Robots, url \in AllUrls, fetched \in Fetches :
        IsAllowed(robot, url, fetched)

SpecRobotsMap == InitRobotsMap /\ [][NextRobotsMap]_vars

\* ----------------------------------------- the EngineRing driven directly
\* a ring of each capacity, no engine built
InitRing ==
    \E cap \in 1..(MaxCap + 2) :
        InitWith("ring", [urls |-> <<>>, filters |-> <<>>], cap, NoLimit, "No", 0, 0,
                 FALSE, [d \in Domains |-> {}])

\* the engines the caller of the ring holds after the last call
Held == IF op.name = "none" THEN {} ELSE op.held

\* EngineRing::obtain(); build_ok is the outcome a call of the builder has
ObtainEngine(build_ok) ==
    /\ pc = "ring"
    /\ LET o == obtain(w.ring, build_ok)
       IN  /\ w' = [w EXCEPT !.ring = o.ring]
           /\ pc' = IF o.kind = "panic" THEN "panic" ELSE pc
           /\ op' = [name |-> "obtain", kind |-> o.kind, engine |-> o.engine,
                     held |-> IF o.kind = "ok" THEN Held \cup {o.engine} ELSE Held]
    /\ UNCHANGED <<seed, filters, robots_txt, s_urls, r_result, job_counter, stats,
                   results, is_closed, ret, tasks, running, notify, clock, hist>>

\* EngineRing::return_back(engine) with an engine the caller holds
ReturnBack(engine) ==
    /\ pc = "ring"
    /\ engine \in Held
    /\ w' = [w EXCEPT !.ring = return_back(w.ring, engine)]
    /\ op' = [name |-> "return_back", kind |-> "ok", engine |-> engine,
              held |-> Held \ {engine}]
    /\ UNCHANGED <<seed, filters, robots_txt, s_urls, r_result, job_counter, stats,
                   results, is_closed, pc, ret, tasks, running, notify, clock, hist>>

NextRing ==
    \/ \E build_ok \in BOOLEAN : ObtainEngine(build_ok)
    \/ \E engine \in 0..(MaxCap + 1) : ReturnBack(engine)

SpecRing == InitRing /\ [][NextRing]_vars

\* the sum of f over S
RECURSIVE SumOver(_, _)
SumOver(f, S) ==
    IF S = {} THEN 0
    ELSE LET x == CHOOSE y \in S : TRUE IN f[x] + SumOver(f, S \ {x})

\* ---- the channel-based Sheduler of shed.rs ----
\* w is the Sheduler, s_urls its url_channel, r_result its result_channel
\* and results the list pool builds; the workers at the other end of the
\* channels take a URL and send what they found on its page
MaxFetches == MaxCap + 1

\* Sheduler::new
Sheduler_new(engine_limit) ==
    [seen_list |-> {}, engine_limit |-> engine_limit, processing_jobs |-> 0]

\* Sheduler::filter_urls: [sh, urls]
RECURSIVE Sheduler_filter_urls(_, _)
Sheduler_filter_urls(sh, urls) ==
    IF urls = <<>> THEN [sh |-> sh, urls |-> <<>>]
    ELSE LET inserted == Head(urls) \notin sh.seen_list
             rest == Sheduler_filter_urls(
                         [sh EXCEPT !.seen_list = @ \cup {Head(urls)}], Tail(urls))
         IN  IF ~inserted
             THEN [rest EXCEPT !.urls = <<Head(urls)>> \o @]
             ELSE rest

\* Sheduler::inc_limit: [hit, sh]
Sheduler_inc_limit(sh) ==
    IF ~sh.engine_limit.some THEN [hit |-> FALSE, sh |-> sh]
    ELSE IF sh.engine_limit.val = 0 THEN [hit |-> TRUE, sh |-> sh]
    ELSE [hit |-> FALSE, sh |-> [sh EXCEPT !.engine_limit.val = @ - 1]]

\* the pages' link lists a worker can report
ShedLinks == {<<>>, <<A>>, <<B>>, <<A, B>>, <<B, B>>}

InitShed ==
    /\ seed \in {<<>>, <<A>>, <<A, B>>}
    /\ filters = <<>>
    /\ robots_txt = [d \in Domains |-> {}]
    /\ w \in {Sheduler_new(l) : l \in {NoLimit, Some(1), Some(MaxFetches)}}
    /\ s_urls = [q |-> <<>>, closed |-> FALSE]
    /\ r_result = <<>>
    /\ job_counter = 0
    /\ stats = Statistics_default
    /\ results = <<>>
    /\ is_closed = FALSE
    /\ pc = "shed"
    /\ ret = [kind |-> "none", results |-> <<>>, stats |-> Statistics_default]
    /\ tasks = <<>>
    /\ running = {}
    /\ notify = FALSE
    /\ clock = 0
    /\ op = [name |-> "none"]
    /\ dispatched = [u \in AllUrls |-> 0]
    /\ requeued = [u \in AllUrls |-> 0]
    /\ limit_hit = FALSE
    /\ cancelled = FALSE
    /\ received = [ok |-> 0, timeout |-> 0, error |-> 0]
    /\ rejected = {}

\* Sheduler::seed_urls(seed), called before pool
SeedUrls ==
    /\ pc = "shed"
    /\ op.name = "none"
    /\ w' = [w EXCEPT !.processing_jobs = @ + Len(seed)]
    /\ s_urls' = [s_urls EXCEPT !.q = @ \o seed]
    /\ op' = [name |-> "seed_urls"]
    /\ UNCHANGED <<seed, filters, robots_txt, hist, r_result, job_counter, stats, results,
                   is_closed, pc,
                   ret, tasks, running, notify, clock>>

\* Sheduler::pool up to its loop
PoolStart ==
    /\ pc = "shed"
    /\ op.name = "seed_urls"
    /\ IF w.processing_jobs = 0
       THEN /\ s_urls' = [s_urls EXCEPT !.closed = TRUE]
            /\ pc' = "done"
            /\ ret' = Returned("ok", <<>>, Statistics_default)
       ELSE /\ pc' = "pool"
            /\ UNCHANGED <<s_urls, ret>>
    /\ UNCHANGED <<conf, hist, w, r_result, job_counter, stats, results, is_closed,
                   tasks, running, notify, clock>>

\* one turn of the loop of Sheduler::pool
PoolRecv ==
    /\ pc = "pool"
    /\ r_result # <<>>
    /\ LET msg == Head(r_result)
           results1 == Append(results, msg.data)
           lim == Sheduler_inc_limit(w)
           f == Sheduler_filter_urls(lim.sh, msg.urls)
           sh1 == [f.sh EXCEPT !.processing_jobs = @ + Len(f.urls) - 1]
       IN  /\ r_result' = Tail(r_result)
           /\ results' = results1
           /\ IF lim.hit
              THEN /\ w' = lim.sh
                   /\ s_urls' = [s_urls EXCEPT !.closed = TRUE]
                   /\ pc' = "done"
                   /\ ret' = Returned("ok", results1, Statistics_default)
                   /\ op' = [name |-> "limit"]
              ELSE /\ w' = sh1
                   /\ op' = [name |-> "pool", urls |-> msg.urls, seen |-> w.seen_list,
                             forwarded |-> f.urls]
                   /\ IF sh1.processing_jobs = 0
                      THEN /\ s_urls' = [q |-> s_urls.q \o f.urls, closed |-> TRUE]
                           /\ pc' = "done"
                           /\ ret' = Returned("ok", results1, Statistics_default)
                      ELSE /\ s_urls' = [s_urls EXCEPT !.q = @ \o f.urls]
                           /\ UNCHANGED <<pc, ret>>
    /\ UNCHANGED <<seed, filters, robots_txt, hist, job_counter, stats, is_closed, tasks,
                   running, notify,
                   clock>>

\* a worker takes a URL from the url_channel and sends the links of its
\* page and its data on the result_channel
ShedWork(links) ==
    /\ pc \in {"shed", "pool"}
    /\ s_urls.q # <<>>
    /\ SumOver(dispatched, AllUrls) < MaxFetches
    /\ s_urls' = [s_urls EXCEPT !.q = Tail(@)]
    /\ r_result' = Append(r_result, [urls |-> links, data |-> Head(s_urls.q)])
    /\ dispatched' = [dispatched EXCEPT ![Head(s_urls.q)] = @ + 1]
    /\ UNCHANGED <<conf, w, job_counter, stats, results, is_closed, pc, ret, tasks,
                   running, notify, clock, requeued, limit_hit, cancelled,
                   received, rejected>>

NextShed ==
    \/ SeedUrls
    \/ PoolStart
    \/ PoolRecv
    \/ \E links \in ShedLinks : ShedWork(links)

SpecShed == InitShed /\ [][NextShed]_vars

\* ---- validate_links driven directly ----
\* the hrefs of a page: absolute with and without a fragment, relative
\* (path and fragment) and unparsable
RawLinks == {A, A1, B, <<0, 1>>, <<>>}
MaxLinks == MaxCap

\* the filter chains of up to two filters
FilterChoices ==
    {Filter_Domain({1}), Filter_Domain({2}), Filter_Regex({A}), Filter_Regex({A1}),
     Filter_Regex({B})}
Chains == {<<>>} \cup {<<f>> : f \in FilterChoices}
             \cup {<<f, g>> : f, g \in FilterChoices}

InitLinks ==
    \E chain \in Chains :
        InitWith("links", [urls |-> <<>>, filters |-> chain], 1, NoLimit, "No", 0, 0,
                 FALSE, [d \in Domains |-> {}])

\* one call validate_links(base, links, filters)
ValidateLinks(base, links) ==
    /\ pc = "links"
    /\ op.name = "none"
    /\ op' = [name |-> "validate_links", base |-> base, links |-> links,
              out |-> validate_links(base, links, filters)]
    /\ UNCHANGED <<seed, filters, robots_txt, w, s_urls, r_result, job_counter, stats,
                   results, is_closed, pc, ret, tasks, running, notify, clock, hist>>

NextLinks ==
    \E base \in {A, B}, links \in UNION {[1..n -> RawLinks] : n \in 0..MaxLinks} :
        ValidateLinks(base, links)

SpecLinks == InitLinks /\ [][NextLinks]_vars

\* ---- Filter::Domain on host names, driven directly ----
\* A name is the sequence of its labels: <<"www", "google", "com">> is
\* www.google.com. Url::domain() of a URL with an IP address or no host is None.
Labels == {"www", "google", "bing", "com"}
MaxLabels == MaxCap + 1
Names(n) == UNION {[1..k -> Labels] : k \in 1..n}

\* the prefix taken off once, as str::strip_prefix would
strip_prefix_once(s) == IF Len(s) >= 2 /\ s[1] = "www" THEN Tail(s) ELSE s

\* s.trim_start_matches("www."): the prefix is taken off as often as it is
\* there; "www." is a prefix when the first label is www and a dot follows
RECURSIVE trim_start_matches(_)
trim_start_matches(s) ==
    IF Len(s) >= 2 /\ s[1] = "www" THEN trim_start_matches(Tail(s)) ELSE s

\* Filter::Domain(filter).is_ignored(url), domain being url.domain()
Domain_is_ignored(filter, domain) ==
    IF domain = None
    THEN TRUE
    ELSE LET found == \E d \in filter :
                          trim_start_matches(domain) = trim_start_matches(d)
         IN  ~found

\* Filter::Domain(vec) of up to two names
InitFilter ==
    \E filter \in {{}} \cup {{a, b} : a, b \in Names(MaxLabels - 1)} :
        InitWith("filter", [urls |-> <<>>, filters |-> <<filter>>], 1, NoLimit, "No",
                 0, 0, FALSE, [d \in Domains |-> {}])

\* one call of is_ignored with a URL of the given domain
IsIgnored(domain) ==
    /\ pc = "filter"
    /\ op.name = "none"
    /\ op' = [name |-> "is_ignored", domain |-> domain,
              ignored |-> Domain_is_ignored(filters[1], domain)]
    /\ UNCHANGED <<seed, filters, robots_txt, w, s_urls, r_result, job_counter, stats,
                   results, is_closed, pc, ret, tasks, running, notify, clock, hist>>

NextFilter == \E domain \in Names(MaxLabels) \cup {None} : IsIgnored(domain)

SpecFilter == InitFilter /\ [][NextFilter]_vars

\* ================================================================ the claims
Min(a, b) == IF a <= b THEN a ELSE b

\* the URLs that are the same address when the fragment is ignored
SameAddress(u) == {v \in AllUrls : set_fragment_none(v) = set_fragment_none(u)}

\* C1: at any instant the number of page fetches running concurrently is at
\* most the ring capacity, and so is the number of engines ever built (the
\* ids the builder has given out, the tasks spawned, the ring's usage list).
C1_CapacityBound ==
    /\ Cardinality(running) <= capacity(w.ring)
    /\ w.ring.builder.id <= capacity(w.ring)
    /\ Cardinality(DOMAIN tasks) <= capacity(w.ring)
    /\ count_engines_in_use(w.ring) <= capacity(w.ring)

\* a crawl of capacity 2 with both engines built and fetching
C1_Witness ==
    /\ capacity(w.ring) = 2
    /\ Cardinality(running) = 2
    /\ w.ring.builder.id = 2

\* C2: no address, compared ignoring its fragment, is taken by an engine more
\* than once, except for the times the retry mechanism re-queued it.
C2_DispatchedOnce ==
    \A u \in AllUrls :
        SumOver(dispatched, SameAddress(u)) <= 1 + SumOver(requeued, SameAddress(u))

\* C3 as stated: for a cap N, keep_retry returns true for a URL strictly
\* fewer than N times: true on the first N-1 calls, false from the N-th on.
C3_FewerThanCap ==
    \A u \in AllUrls :
        LET calls == CountOf(w.retry_pool.retry_count, u)
            N == w.retry_pool.count_retries
        IN  calls >= 1 => requeued[u] < N /\ requeued[u] = Min(calls, N - 1)

\* C3: for a cap N >= 1, keep_retry returns true for a URL on exactly its
\* first N-1 calls and false from the N-th call on, hence true fewer than N
\* times; for the cap 0 it returns false on every call.  The last call made
\* returned true exactly when the calls so far are fewer than N.
C3_RetryCap ==
    /\ \A u \in AllUrls :
          LET calls == CountOf(w.retry_pool.retry_count, u)
              N == w.retry_pool.count_retries
          IN  /\ N >= 1 => requeued[u] = Min(calls, N - 1) /\ requeued[u] < N
              /\ N = 0 => requeued[u] = 0
    /\ op.name = "keep_retry" =>
          op.ok = (CountOf(w.retry_pool.retry_count, op.url)
                       < w.retry_pool.count_retries)

\* the third call for a URL under the cap 3 has just returned false, after
\* two calls that returned true
C3_Witness ==
    /\ pc = "pool"
    /\ w.retry_pool.count_retries = 3
    /\ op = [name |-> "keep_retry", url |-> A, ok |-> FALSE]
    /\ CountOf(w.retry_pool.retry_count, A) = 3
    /\ requeued[A] = 2

\* C4: once the artifact limit has been reached no engine starts a further
\* URL (so that the results exceed the limit by at most the fetches that
\* were running when it was hit).
C4_NoStartAfterLimit == [][limit_hit => dispatched' = dispatched]_vars

\* no signal has been fired: the run is one without cancellation
NoCancellation == ~notify /\ ~cancelled

\* C5 as stated, its postcondition: when start has returned from a crawl
\* with a non-empty seed, without the robots check and without cancellation,
\* the frontier and the retry pool are empty and no fetch is in flight.
C5_EmptyAtReturn ==
    pc = "done" /\ seed # <<>> /\ ~w.use_robot_check /\ NoCancellation =>
        /\ w.urls_pool = <<>>
        /\ RetryPool_is_empty(w.retry_pool)
        /\ running = {}

\* The work left: the URLs not seen yet and the retries each URL may still
\* be granted, the URLs waiting in the frontier and the retry pool, the
\* URLs queued, the fetches running, the results undelivered, the engine
\* tasks not ended, the steps start has left and the stored signal.
RetriesLeft(u) ==
    LET calls == CountOf(w.retry_pool.retry_count, u)
        N == w.retry_pool.count_retries
    IN  IF w.retry_policy = "No" \/ calls + 1 >= N THEN 0 ELSE N - 1 - calls

PoolSize(rp) == SumOver([k \in DOMAIN rp.pool |-> Len(rp.pool[k])], DOMAIN rp.pool)

WorkLeft ==
    8 * (Cardinality(AllUrls \ w.seen_list) + SumOver([u \in AllUrls |-> RetriesLeft(u)], AllUrls))
    + 4 * (Len(w.urls_pool) + PoolSize(w.retry_pool))
    + 3 * Len(s_urls.q) + 2 * Cardinality(running) + Len(r_result)
    + (capacity(w.ring) - Cardinality({e \in DOMAIN tasks : tasks[e] # "recv"}))
    + (CASE pc = "start" -> 3 [] pc = "loop" -> 2 [] pc = "join" -> 1 [] OTHER -> 0)
    + (IF notify THEN 1 ELSE 0)

\* C5: given a non-empty seed, a capacity >= 1, no robots check, finitely
\* many URLs, no cancellation and fetches that complete, start eventually
\* returns under every retry policy and retry cap: until it has returned
\* the program can take a step, and every step but the firing of the
\* signal lessens the work left.  When it returns without the artifact limit having been
\* reached and without a failed engine build, the frontier and the retry
\* pool are empty, no URL waits in the channel and no fetch is in flight.
C5_Terminates ==
    /\ [](pc # "done" /\ NoCancellation => ENABLED Program)
    /\ [][Cancel \/ WorkLeft' < WorkLeft]_vars
    /\ [](pc = "done" /\ seed # <<>> /\ NoCancellation /\ ~limit_hit
              /\ ret.kind = "ok" =>
             /\ w.urls_pool = <<>>
             /\ RetryPool_is_empty(w.retry_pool)
             /\ s_urls.q = <<>>
             /\ running = {}
             /\ r_result = <<>>)

\* start has returned from a crawl that retried a timeout and collected two
\* pages, without limit, build failure or cancellation
C5_Witness ==
    /\ pc = "done" /\ ret.kind = "ok"
    /\ seed # <<>> /\ NoCancellation /\ ~limit_hit
    /\ stats.count_retries >= 1
    /\ Len(results) >= 2

\* C6: start returns whenever nothing is in flight and no admissible URL
\* remains: a start that has not returned, with no fetch running, no
\* result undelivered and no URL queued, can take its next step (the first
\* pass admitting no URL included).
C6_ReturnsWhenIdle ==
    /\ pc \notin {"start", "done"}
    /\ running = {} /\ r_result = <<>> /\ s_urls.q = <<>>
    /\ NoCancellation
    => ENABLED Program

\* C7: after the cancellation signal has been handled no engine starts
\* another URL: the URLs admitted but not started are never fetched.
C7_NoStartAfterCancel == [][cancelled => dispatched' = dispatched]_vars

\* C8: when start has returned after a cancellation no fetch is running:
\* every fetch that started has delivered its result, the control loop has
\* received it and counted it, and the statistics returned hold that count.
C8_DrainedAtReturn ==
    pc = "done" /\ cancelled =>
        /\ running = {}
        /\ r_result = <<>>
        /\ stats.count_visited = SumOver(dispatched, AllUrls)
        /\ ret = Returned("ok", results, stats)

\* start has returned after a cancellation that two started fetches outlived
C8_Witness ==
    /\ pc = "done" /\ cancelled
    /\ stats.count_visited >= 2
    /\ SumOver(dispatched, AllUrls) >= 2

\* C9: once the cancellation has been handled in the control loop and the
\* running fetches complete, start returns: it has returned or the program
\* can take a step towards it.
C9_CancelledReturns == cancelled => pc = "done" \/ ENABLED Program

\* C10: start called with an empty seed returns at once, with an empty
\* result list and the four counters 0, and no engine is ever obtained or
\* built.
C10_EmptySeed ==
    seed = <<>> =>
        /\ pc \in {"start", "done"}
        /\ pc = "done" =>
              /\ ret.results = <<>>
              /\ ret.stats = [count_errors |-> 0, count_retries |-> 0,
                              count_visited |-> 0, count_collected |-> 0]
        /\ w.ring.builder.id = 0
        /\ count_engines_in_use(w.ring) = 0
        /\ tasks = <<>>

\* start has returned from a call with an empty seed
C10_Witness == seed = <<>> /\ pc = "done" /\ ret.kind = "empty_seed"

\* the first spawn_engines pass builds one engine per slot unless a build
\* fails: fewer engines than slots after it means that a build failed
BuildFailed == pc # "start" /\ seed # <<>> /\ w.ring.builder.id < capacity(w.ring)

\* C11: when EngineBuilder::build fails, start returns at once with an empty
\* result list and all-zero statistics, no result having been received and
\* no error counted; start returns a build error in no other case
C11_BuildError ==
    /\ BuildFailed =>
            /\ pc = "done"
            /\ ret = Returned("build_error", <<>>, Statistics_default)
            /\ stats.count_errors = 0
            /\ received = [ok |-> 0, timeout |-> 0, error |-> 0]
    /\ ret.kind = "build_error" => BuildFailed

\* the second build failed, after one engine was built and spawned
C11_Witness ==
    BuildFailed /\ w.ring.builder.id = 1 /\ DOMAIN tasks # {} /\ pc = "done"

\* C12: a null value is not appended and not counted: the result list holds
\* no null, and its length is count_collected
C12_NullDropped ==
    /\ Len(results) = stats.count_collected
    /\ \A i \in 1..Len(results) : results[i] # Null

\* C13: a step that receives a timeout or another error leaves the remaining
\* limit and the intake flag as they were; the limit goes down only in a
\* step that receives a success
C13_LimitOnlyOnSuccess ==
    [][/\ (received'.timeout # received.timeout \/ received'.error # received.error)
            => /\ w'.url_limit = w.url_limit
               /\ is_closed' = is_closed
               /\ limit_hit' = limit_hit
       /\ w'.url_limit # w.url_limit => received'.ok = received.ok + 1]_vars

\* more pages visited than the limit allows artifacts, all of them failed,
\* and intake still open
C13_Witness ==
    /\ w.url_limit.some
    /\ stats.count_visited > w.url_limit.val
    /\ received.ok = 0
    /\ received.timeout + received.error = stats.count_visited
    /\ ~is_closed
    /\ pc = "loop"

\* the buckets of the retry pool a step takes a URL from
TakenBuckets ==
    {k \in DOMAIN w.retry_pool.pool :
        \/ k \notin DOMAIN w'.retry_pool.pool
        \/ w'.retry_pool.pool[k] # w.retry_pool.pool[k]}

\* the bucket stored at time k has aged past the threshold
IsReady(k) == clock - k > w.retry_pool.fire_time

Elements(s) == {s[i] : i \in 1..Len(s)}

\* C14: under RetryFirst, get_url returns a URL of a ready bucket whenever
\* there is one, whatever the frontier holds; it takes a URL from a bucket
\* that is not ready only when the frontier is empty, and the frontier's
\* last URL when it takes none from the retry pool
C14_RetryFirst ==
    [][WorkloadGetUrl /\ w.retry_policy = "RetryFirst" =>
          /\ Cardinality(TakenBuckets) <= 1
          /\ (\E k \in DOMAIN w.retry_pool.pool : IsReady(k)) =>
                /\ \E k \in TakenBuckets :
                      IsReady(k) /\ op'.url \in Elements(w.retry_pool.pool[k])
                /\ w'.urls_pool = w.urls_pool
          /\ \A k \in TakenBuckets :
                /\ op'.url \in Elements(w.retry_pool.pool[k])
                /\ ~IsReady(k) => w.urls_pool = <<>>
          /\ TakenBuckets = {} =>
                IF w.urls_pool # <<>>
                THEN op'.url = Last(w.urls_pool) /\ w'.urls_pool = Front(w.urls_pool)
                ELSE op'.url = None /\ RetryPool_is_empty(w.retry_pool)]_vars

\* a retry URL was returned although the frontier held a URL
C14_Witness ==
    /\ w.retry_policy = "RetryFirst"
    /\ op.name = "Workload::get_url"
    /\ op.from = "retry"
    /\ ~op.frontier_empty
    /\ op.url # None

\* C15: under RetryLast, get_url returns the frontier's last URL whenever the
\* frontier is not empty and leaves the retry pool alone; when the frontier
\* is empty it returns a URL of the oldest bucket, ready or not
C15_RetryLast ==
    [][WorkloadGetUrl /\ w.retry_policy = "RetryLast" =>
          IF w.urls_pool # <<>>
          THEN /\ op'.url = Last(w.urls_pool)
               /\ w'.urls_pool = Front(w.urls_pool)
               /\ w'.retry_pool = w.retry_pool
          ELSE IF RetryPool_is_empty(w.retry_pool) THEN op'.url = None
          ELSE /\ TakenBuckets = {FirstKey(w.retry_pool.pool)}
               /\ op'.url \in Elements(w.retry_pool.pool[FirstKey(w.retry_pool.pool)])]_vars

\* with an empty frontier, a URL was taken from a bucket stored at the
\* current instant, which no threshold lets through
C15_Witness ==
    /\ w.retry_policy = "RetryLast"
    /\ op.name = "Workload::get_url"
    /\ op.from = "retry"
    /\ op.frontier_empty
    /\ clock = 0

\* C16: under retry policy No the retry pool stays empty and keep_retry is
\* never called, count_retries stays 0, every timeout is counted in
\* count_errors as every other error is, and no URL is taken by an engine
\* twice
C16_NoRetryPolicy ==
    w.retry_policy = "No" =>
        /\ RetryPool_is_empty(w.retry_pool)
        /\ w.retry_pool.retry_count = <<>>
        /\ stats.count_retries = 0
        /\ stats.count_errors = received.timeout + received.error
        /\ \A u \in AllUrls : requeued[u] = 0 /\ dispatched[u] <= 1

\* a crawl under policy No that met a timeout has returned
C16_Witness ==
    /\ w.retry_policy = "No"
    /\ received.timeout >= 1
    /\ stats.count_errors >= 1
    /\ pc = "done"
    /\ ret.kind = "ok"

Max(a, b) == IF a >= b THEN a ELSE b

\* keep_retry has returned false for u: u was counted, up to the cap
IsExhausted(u) ==
    /\ CountOf(w.retry_pool.retry_count, u) >= 1
    /\ CountOf(w.retry_pool.retry_count, u) >= w.retry_pool.count_retries

\* C17: each URL is taken by an engine at most max(1, N) times for a retry
\* cap N, once plus once per accepted keep_retry, of which there are at most
\* N - 1; once keep_retry has returned false for a URL it waits nowhere and
\* no engine takes it again
C17_FetchedAtMostCap ==
    /\ [](\A u \in AllUrls :
            /\ dispatched[u] <= Max(1, w.retry_pool.count_retries)
            /\ dispatched[u] <= 1 + requeued[u]
            /\ requeued[u] <= Max(0, w.retry_pool.count_retries - 1)
            /\ IsExhausted(u) =>
                  /\ u \in w.seen_list
                  /\ u \notin Waiting(w)
                  /\ \A i \in 1..Len(s_urls.q) : s_urls.q[i] # u)
    /\ [][\A u \in AllUrls : IsExhausted(u) => dispatched'[u] = dispatched[u]]_vars

\* a URL was fetched N = 2 times, keep_retry has returned false for it, a
\* page then linked to it, and start has returned
C17_Witness ==
    /\ w.retry_pool.count_retries = 2
    /\ dispatched[A] = 2
    /\ IsExhausted(A)
    /\ received.ok >= 1
    /\ pc = "done"

\* C18: a step that receives an error that is not a timeout adds one to
\* count_errors and nothing to the other counters but count_visited, leaves
\* the retry pool, its counts and the seen list as they were, and does not
\* return from start while a job is left; each error received is counted
\* once, and no URL is taken again without having been re-queued
C18_ErrorCounted ==
    /\ [][received'.error # received.error =>
            /\ received'.error = received.error + 1
            /\ stats' = [stats EXCEPT !.count_errors = @ + 1, !.count_visited = @ + 1]
            /\ requeued' = requeued
            /\ w'.retry_pool.retry_count = w.retry_pool.retry_count
            /\ PoolSize(w'.retry_pool) <= PoolSize(w.retry_pool)
            /\ w'.seen_list = w.seen_list
            /\ results' = results
            /\ pc' = "loop" \/ (pc' = "join" /\ job_counter' = 0)]_vars
    /\ [](/\ stats.count_errors =
               received.error + (IF w.retry_policy = "No" THEN received.timeout ELSE 0)
          /\ \A u \in AllUrls : dispatched[u] <= 1 + requeued[u])

\* after a first URL failed with an error, the loop went on and collected
\* the value of another URL
C18_Witness ==
    /\ received.error = 1
    /\ received.timeout = 0
    /\ stats.count_errors = 1
    /\ stats.count_collected >= 1
    /\ results # <<>> /\ results[1] # Null
    /\ pc = "done"
    /\ ret.kind = "ok"
    /\ ret.results = results

\* C19: count_retries is the number of keep_retry calls that returned true
C19_RetriesRequeued == stats.count_retries = SumOver(requeued, AllUrls)

\* C20: a URL for which is_allowed answered Ok(false) or an error is never
\* taken by an engine, waits in no pool and in no channel, was never counted
\* by the retry pool, and no counter counts it: the counters count the
\* fetches of the URLs that were dispatched, and nothing else
C20_RejectedUntouched ==
    /\ \A u \in rejected :
          /\ dispatched[u] = 0
          /\ u \notin Waiting(w)
          /\ \A i \in 1..Len(s_urls.q) : s_urls.q[i] # u
          /\ \A r \in running : r.url # u
          /\ CountOf(w.retry_pool.retry_count, u) = 0
          /\ requeued[u] = 0
    /\ stats.count_visited + Len(r_result) + Cardinality(running)
          = SumOver(dispatched, AllUrls)
    /\ stats.count_visited
          = stats.count_collected + stats.count_retries + stats.count_errors

\* the robots.txt of one seed could not be fetched, the other seed was
\* crawled, and start has returned
C20_Witness ==
    /\ \E u \in rejected : robots_txt[u[1]] = {}
    /\ \E v \in AllUrls : dispatched[v] >= 1
    /\ stats.count_visited >= 1
    /\ pc = "done"

\* C21: a lookup whose (domain, robot) key has a cached verifier is answered
\* by that verifier whatever a GET of robots.txt would give now, so it makes
\* none; and every step keeps every cache entry as it is
C21_CachedForEver ==
    [][/\ \A k \in DOMAIN w.robot_ctrl.map :
             k \in DOMAIN w'.robot_ctrl.map /\ w'.robot_ctrl.map[k] = w.robot_ctrl.map[k]
       /\ \A robot \in Robots, url \in AllUrls :
             <<url[1], robot>> \in DOMAIN w.robot_ctrl.map =>
                \A fetched \in Fetches :
                   IsAllowed(robot, url, fetched) =>
                      /\ op'.ok
                      /\ op'.allowed =
                            Verifier_is_allowed(w.robot_ctrl.map[<<url[1], robot>>], url)
                      /\ w'.robot_ctrl = w.robot_ctrl]_vars

\* a lookup was answered "not allowed" from the cache although both keys of
\* the domain are cached and more lookups have been made since the first
C21_Witness ==
    /\ op.name = "is_allowed"
    /\ op.cached
    /\ op.ok /\ ~op.allowed
    /\ Cardinality(DOMAIN w.robot_ctrl.map) >= 2

\* C22: with an idle engine in the free list, obtain returns the engine put
\* there last, whatever a build would give, and builds nothing; the obtain
\* that follows return_back(e) returns e; an engine is built only with an
\* empty free list and fewer engines in use than the capacity
C22_ReuseIdle ==
    [][\A build_ok \in BOOLEAN :
          ObtainEngine(build_ok) =>
             /\ w.ring.free_list # <<>> =>
                   /\ op'.kind = "ok"
                   /\ op'.engine = w.ring.free_list[Len(w.ring.free_list)]
                   /\ w'.ring.builder = w.ring.builder
             /\ op.name = "return_back" => op'.kind = "ok" /\ op'.engine = op.engine
             /\ w'.ring.builder # w.ring.builder =>
                   /\ w.ring.free_list = <<>>
                   /\ count_engines_in_use(w.ring) < capacity(w.ring)]_vars

\* an engine that was returned while another idle engine waited has been
\* obtained again, and nothing was built for it
C22_Witness ==
    /\ op.name = "obtain"
    /\ op.kind = "ok"
    /\ op.engine = 0
    /\ w.ring.builder.id = 2
    /\ w.ring.free_list = <<1>>
    /\ capacity(w.ring) = 3

\* no engine is idle and as many engines are in use as the ring may hold
RingExhausted(ring) ==
    ring.free_list = <<>> /\ count_engines_in_use(ring) >= capacity(ring)

\* C23: obtain panics on a ring with no idle engine and capacity engines in
\* use, whatever a build would give; start never panics, and whenever its
\* ring is in that situation spawn_engines sees no free slot and does not
\* call obtain
C23_ObtainNeverPanics ==
    /\ pc # "panic"
    /\ count_engines_in_use(w.ring) = Cardinality(w.spawned_jobs)
    /\ RingExhausted(w.ring) =>
          /\ \A build_ok \in BOOLEAN : obtain(w.ring, build_ok).kind = "panic"
          /\ ~is_there_free_engine(w)
          /\ \A fail_at \in 0..capacity(w.ring) :
                spawn_engines(w, fail_at, 0) = [kind |-> "ok", w |-> w, spawned |-> {}]

\* a crawl that refilled twice with every engine of its ring in use
C23_Witness ==
    /\ RingExhausted(w.ring)
    /\ capacity(w.ring) = 2
    /\ stats.count_visited >= 2
    /\ stats.count_retries >= 1
    /\ pc = "done"

\* the step takes one URL, the one it returns, from the earliest bucket
TakesFromEarliest ==
    /\ op'.url # None
    /\ PoolSize(w'.retry_pool) = PoolSize(w.retry_pool) - 1
    /\ \E k \in DOMAIN w.retry_pool.pool :
          /\ TakenBuckets = {k}
          /\ \A j \in DOMAIN w.retry_pool.pool : k <= j
          /\ op'.url \in Elements(w.retry_pool.pool[k])

\* C24: get_url(false) takes a URL from the earliest bucket when that
\* bucket's age is above the threshold, and otherwise returns none and
\* leaves the pool as it is; get_url(true) takes a URL from the earliest
\* bucket whatever its age and returns none only on an empty pool
C24_GetUrl ==
    [][\A force \in BOOLEAN :
          GetUrl(force) =>
             IF /\ ~RetryPool_is_empty(w.retry_pool)
                /\ \/ force
                   \/ \A k \in DOMAIN w.retry_pool.pool :
                         (\A j \in DOMAIN w.retry_pool.pool : k <= j)
                            => clock - k > w.retry_pool.fire_time
             THEN TakesFromEarliest
             ELSE op'.url = None /\ w'.retry_pool = w.retry_pool]_vars

\* an unforced call returned a URL of an aged bucket and left a bucket behind
C24_Witness ==
    /\ op.name = "get_url"
    /\ ~op.force
    /\ op.url # None
    /\ ~RetryPool_is_empty(w.retry_pool)
    /\ w.retry_pool.fire_time = 0

\* the pooled URL that was kept first, None on an empty pool
RECURSIVE EarliestKept(_, _)
EarliestKept(rp, order) ==
    IF order = <<>> THEN None
    ELSE IF \E k \in DOMAIN rp.pool : Head(order) \in Elements(rp.pool[k])
    THEN Head(order)
    ELSE EarliestKept(rp, Tail(order))

KeptApart ==
    \A k \in DOMAIN w.retry_pool.pool : Len(w.retry_pool.pool[k]) = 1 /\ clock > k

C26_CompletionOrder ==
    [][/\ results' # results =>
             /\ r_result # <<>>
             /\ r_result' = Tail(r_result)
             /\ \E v \in {Head(r_result).url, Null} : results' = Append(results, v)
       /\ (pc' = "done" /\ ret'.kind = "ok") => ret'.results = results']_vars

\* the two seeds are sent in the order B, A; here A's value stands before
\* B's in the list returned
C26_Witness ==
    /\ seed = <<A, B>>
    /\ pc = "done"
    /\ ret.results = <<A, B>>

\* the crawl state C27 names: the frontier, the seen set, the retry pool,
\* the ring bookkeeping and the limit counter (all fields of the Workload),
\* the statistics, and the locals the loop keeps with them
CrawlState == <<w, stats, results, job_counter, is_closed>>

\* C27: a step of an engine task leaves the crawl state unchanged; once the
\* select loop runs, the Workload, the statistics and the results change
\* only in a step that takes a message from the completion channel, and the
\* intake flag only in such a step or in the handling of the cancellation
C27_TasksChangeNothing ==
    [][/\ Engine => UNCHANGED CrawlState
       /\ (running' # running \/ \E e \in DOMAIN tasks : tasks'[e] # tasks[e])
             => UNCHANGED CrawlState
       /\ (pc # "start" /\ <<w, stats, results, job_counter>>' # <<w, stats, results, job_counter>>)
             => pc = "loop" /\ r_result # <<>> /\ r_result' = Tail(r_result)
       /\ (pc # "start" /\ is_closed' # is_closed)
             => \/ pc = "loop" /\ r_result # <<>> /\ r_result' = Tail(r_result)
                \/ notify /\ ~notify' /\ cancelled']_vars

\* two fetches ran and ended while the control loop had handled one message
C27_Witness ==
    /\ stats.count_visited = 1
    /\ r_result # <<>>
    /\ SumOver(dispatched, AllUrls) >= 2
    /\ pc = "loop"

\* C28: no two running fetches use one engine, and every running fetch is
\* that of a spawned engine; every URL sent on the URL channel either waits
\* in it or was taken by exactly one engine, and every URL taken is being
\* fetched, or its result waits in the completion channel, or was handled;
\* when start returns normally none waits and none is being fetched
C28_OneFetchPerEngine ==
    /\ \A r1, r2 \in running : r1.engine = r2.engine => r1 = r2
    /\ \A r \in running : r.engine \in w.spawned_jobs /\ tasks[r.engine] = "recv"
    /\ SumOver(dispatched, AllUrls) + Len(s_urls.q) = job_counter + stats.count_visited
    /\ SumOver(dispatched, AllUrls)
          = Cardinality(running) + Len(r_result) + stats.count_visited
    /\ (pc = "done" /\ ret.kind = "ok") =>
          s_urls.q = <<>> /\ running = {} /\ r_result = <<>>

\* two engines fetch two URLs at the same time while a re-queued URL has
\* been sent again
C28_Witness ==
    /\ Cardinality(running) = 2
    /\ Cardinality({r.engine : r \in running}) = 2
    /\ Cardinality({r.url : r \in running}) = 2
    /\ stats.count_visited >= 1

\* everything but the permit of the Notify
AllButNotify ==
    <<seed, filters, robots_txt, w, s_urls, r_result, job_counter, stats, results,
      is_closed, pc, ret, tasks, running, clock, op, dispatched, requeued,
      limit_hit, cancelled, received, rejected>>

\* C29: once a cancellation was handled, firing the signal again and
\* handling it change nothing but the permit, which is back to what it was
\* after the handling: the crawl goes on from the state it was in, so its
\* outcomes are those of one cancellation; and start never panics
C29_CancelIdempotent ==
    /\ [][cancelled /\ notify' # notify => UNCHANGED AllButNotify]_vars
    /\ [](pc # "panic")
    /\ [](cancelled => is_closed /\ s_urls.closed)

\* the signal was fired and handled, and fired again while the loop runs
\* with fetches still in flight: the second handling is due
C29_Witness ==
    /\ cancelled
    /\ notify
    /\ pc = "loop"
    /\ s_urls.closed
    /\ job_counter > 0

\* the name with one leading "www." removed, when it has one
WithoutALeadingWww(s) == IF Len(s) >= 2 /\ s[1] = "www" THEN SubSeq(s, 2, Len(s)) ELSE s

\* the name with every leading "www." removed: what is left after the
\* longest run of www labels that a further label follows
WithoutLeadingWww(s) ==
    LET k == CHOOSE k \in 0..(Len(s) - 1) :
                 /\ \A i \in 1..k : s[i] = "www"
                 /\ (k + 1 = Len(s) \/ s[k + 1] # "www")
    IN  SubSeq(s, k + 1, Len(s))

\* the three URLs of the example, with the set {google.com}
ExampleHolds ==
    filters[1] = {<<"google", "com">>} /\ op.name = "is_ignored" =>
        /\ op.domain \in {<<"google", "com">>, <<"www", "google", "com">>} => ~op.ignored
        /\ op.domain = <<"bing", "com">> => op.ignored

\* C30 as stated: a URL is ignored exactly when it has no domain or its
\* domain without one leading "www." equals no entry without one leading "www."
C30_DomainFilterOnce ==
    op.name = "is_ignored" =>
        /\ op.ignored <=>
              \/ op.domain = None
              \/ \A d \in filters[1] :
                     WithoutALeadingWww(op.domain) # WithoutALeadingWww(d)
        /\ ExampleHolds

\* C30: a URL is ignored exactly when it has no domain or its domain
\* without all its leading "www." equals no entry of the set without all its
\* leading "www."; with {google.com}, google.com and www.google.com are not
\* ignored and bing.com is
C30_DomainFilter ==
    op.name = "is_ignored" =>
        /\ op.ignored <=>
              \/ op.domain = None
              \/ \A d \in filters[1] :
                     WithoutLeadingWww(op.domain) # WithoutLeadingWww(d)
        /\ ExampleHolds

\* www.www.google is asked of a filter that holds google alone: the second
\* "www." is removed as well and the URL is let through
C30_Witness ==
    /\ op.name = "is_ignored"
    /\ op.domain = <<"www", "www", "google">>
    /\ filters[1] = {<<"google">>}
    /\ ~op.ignored

\* the URLs sent on the URL channel so far: those taken by an engine and
\* those still queued
Admitted == SumOver(dispatched, AllUrls) + Len(s_urls.q)

\* C31: the engines obtained from the ring are never more than the URLs
\* admitted from the frontier or the retry pool
C31_EnginePerUrl ==
    pc \in {"loop", "join", "done"} =>
        count_engines_in_use(w.ring) <= Admitted

\* the bucket of the pool at key k, empty when there is none
BucketAt(rp, k) == IF k \in DOMAIN rp.pool THEN rp.pool[k] ELSE <<>>

\* C32: a keep_retry call that returns false leaves the bucket map as it
\* was; a call that returns true appends the URL to the bucket of the
\* current time, which it creates when there is none, and leaves every other
\* bucket as it was
C32_KeepRetryFrame ==
    [][\A url \in {A, B} :
          KeepRetry(url) =>
             IF op'.ok
             THEN /\ DOMAIN w'.retry_pool.pool = DOMAIN w.retry_pool.pool \cup {clock}
                  /\ w'.retry_pool.pool[clock] =
                        Append(BucketAt(w.retry_pool, clock), url)
                  /\ \A k \in DOMAIN w.retry_pool.pool \ {clock} :
                        w'.retry_pool.pool[k] = w.retry_pool.pool[k]
             ELSE w'.retry_pool.pool = w.retry_pool.pool]_vars

\* a call was refused while another URL waits in the pool
C32_Witness ==
    /\ op.name = "keep_retry"
    /\ ~op.ok
    /\ op.url = A
    /\ \E k \in DOMAIN w.retry_pool.pool : w.retry_pool.pool[k] = <<B>>
    /\ PoolSize(w.retry_pool) = 1

\* the bucket map without the last URL of its earliest bucket, and without
\* that bucket when the URL was its only one
WithoutNewestOfEarliest(pool) ==
    LET k == CHOOSE k \in DOMAIN pool : \A j \in DOMAIN pool : k <= j
    IN  IF Len(pool[k]) = 1
        THEN [j \in DOMAIN pool \ {k} |-> pool[j]]
        ELSE [j \in DOMAIN pool |->
                 IF j = k THEN SubSeq(pool[k], 1, Len(pool[k]) - 1) ELSE pool[j]]

\* C33: no bucket of the retry pool is ever empty, so that is_empty() is
\* true exactly when no URL awaits a retry; and get_url(true) returns none
\* on an empty pool only, and otherwise returns the URL pushed last on the
\* earliest bucket and takes that URL, and nothing else, out of the pool: the
\* forced calls return each accepted URL once, bucket by bucket
C33_Drains ==
    /\ [](\A k \in DOMAIN w.retry_pool.pool : w.retry_pool.pool[k] # <<>>)
    /\ [](RetryPool_is_empty(w.retry_pool) <=> PoolSize(w.retry_pool) = 0)
    /\ [][GetUrl(TRUE) =>
            IF PoolSize(w.retry_pool) = 0
            THEN op'.url = None /\ w'.retry_pool = w.retry_pool
            ELSE \E k \in DOMAIN w.retry_pool.pool :
                    /\ \A j \in DOMAIN w.retry_pool.pool : k <= j
                    /\ op'.url = w.retry_pool.pool[k][Len(w.retry_pool.pool[k])]
                    /\ w'.retry_pool.pool = WithoutNewestOfEarliest(w.retry_pool.pool)
                    /\ w'.retry_pool.retry_count = w.retry_pool.retry_count]_vars

\* a forced call has returned the last of several accepted URLs and the
\* pool is empty
C33_Witness ==
    /\ op.name = "get_url"
    /\ op.force
    /\ op.url # None
    /\ RetryPool_is_empty(w.retry_pool)
    /\ SumOver(requeued, AllUrls) >= 3

\* the URL a raw link stands for on a page at base, None when it has none
Resolved(base, link) ==
    CASE Len(link) = 3 -> link
      [] Len(link) = 2 -> <<base[1], link[1], link[2]>>
      [] OTHER -> None

\* the raw links of the call that resolve to a URL no filter ignores
Surviving ==
    {i \in 1..Len(op.links) :
        /\ Resolved(op.base, op.links[i]) # None
        /\ ~IgnoredByAny(filters, Resolved(op.base, op.links[i]))}

RECURSIVE NotYetSeen(_, _)
NotYetSeen(urls, seen) ==
    IF urls = <<>> THEN <<>>
    ELSE IF Head(urls) \in seen THEN NotYetSeen(Tail(urls), seen)
    ELSE <<Head(urls)>> \o NotYetSeen(Tail(urls), seen \cup {Head(urls)})

\* C35: a turn of Sheduler::pool forwards to the URL channel the discovered
\* URLs that were not seen before, each once, and drops the others
C35_SeenDropped ==
    op.name = "pool" => op.forwarded = NotYetSeen(op.urls, op.seen)

\* C36: the ids the ring records as in use are the ids of the engines
\* handed out and not returned, and they are never more than the capacity;
\* an engine that is built while k engines are handed out has the id k, so
\* that the first n calls on a fresh ring give 0, 1, .., n - 1 in that order
C36_InUseIsHandedOut ==
    /\ [](w.ring.usage_list = Held)
    /\ [](count_engines_in_use(w.ring) <= capacity(w.ring))
    /\ [][\A build_ok \in BOOLEAN :
            ObtainEngine(build_ok) /\ op'.kind = "ok" /\ w.ring.free_list = <<>>
               => /\ op'.engine = Cardinality(Held)
                  /\ Held = 0..(op'.engine - 1)]_vars

\* three calls on a fresh ring of capacity three gave 0, 1 and 2, the last
\* one just now, and all three engines are in use
C36_Witness ==
    /\ op.name = "obtain"
    /\ op.kind = "ok"
    /\ op.engine = 2
    /\ op.held = {0, 1, 2}
    /\ w.ring.builder.id = 3
    /\ capacity(w.ring) = 3
    /\ count_engines_in_use(w.ring) = 3

\* the counters that tell the completions apart, added up
Outcomes(st) == st.count_collected + st.count_errors + st.count_retries

\* C37: count_visited is the sum of the three other counters in every
\* state of the loop and in the statistics start returns; a step changes the
\* counters only by adding one to count_visited and to one of the three
\* others, so that no counter ever decreases
C37_CountersAddUp ==
    /\ [](stats.count_visited = Outcomes(stats))
    /\ [](ret.stats.count_visited = Outcomes(ret.stats))
    /\ [](pc = "done" /\ ret.kind = "ok" => ret.stats = stats)
    /\ [][stats' # stats =>
            /\ stats'.count_visited = stats.count_visited + 1
            /\ \E c \in {"count_collected", "count_errors", "count_retries"} :
                  stats' = [stats EXCEPT !.count_visited = @ + 1, ![c] = @ + 1]]_vars

\* start has returned the counters of a crawl that collected a page, had a
\* timeout re-queued and gave up on an error
C37_Witness ==
    /\ pc = "done"
    /\ ret.kind = "ok"
    /\ ret.stats.count_collected >= 1
    /\ ret.stats.count_errors >= 1
    /\ ret.stats.count_retries >= 1
    /\ ret.stats.count_visited >= 3

\* the jobs on their way: the URLs queued in the URL channel, the fetches
\* running and the results the loop has not received yet
InFlight == Len(s_urls.q) + Cardinality(running) + Len(r_result)

\* C38: while the loop runs, and when it waits for its tasks, job_counter
\* is the number of URLs queued plus fetches running plus results not yet
\* received; so it is at least 1 when a result is there to receive, and when
\* it is 0 nothing is queued and nothing runs
C38_JobCounter ==
    pc \in {"loop", "join"} =>
        /\ job_counter = InFlight
        /\ r_result # <<>> => job_counter >= 1
        /\ job_counter = 0 => running = {} /\ s_urls.q = <<>>

\* the loop runs with a fetch running and a result waiting, two jobs counted
C38_Witness ==
    /\ pc = "loop"
    /\ Cardinality(running) = 1
    /\ Len(r_result) = 1
    /\ job_counter = 2

\* C39: while intake is open, every state of the loop comes right after a
\* pass over get_url, and the frontier and the retry pool are both empty:
\* the pass has sent every URL the robots check admits, those of retry
\* buckets younger than the threshold included
C39_FillEmpties ==
    pc \in {"loop", "join"} /\ ~is_closed =>
        /\ w.urls_pool = <<>>
        /\ RetryPool_is_empty(w.retry_pool)
        /\ ~is_any_urls(w)

\* a URL that timed out was re-queued and sent again by the pass of the
\* same turn of the loop, before any time had passed
C39_Witness ==
    /\ pc = "loop"
    /\ ~is_closed
    /\ clock = 0
    /\ \E u \in AllUrls :
          /\ requeued[u] >= 1
          /\ \E i \in 1..Len(s_urls.q) : s_urls.q[i] = u
    /\ RetryPool_is_empty(w.retry_pool)

\* C40: when start has returned results (not after a failed build) every
\* task it spawned has left its loop and closed its backend; a task whose
\* backend is closed runs no fetch, and a backend is closed only by a task
\* that is idle, i.e. whose last result was sent, on a closed and empty
\* URL channel
C40_TasksClosedAtReturn ==
    /\ [](pc = "done" /\ ret.kind = "ok" =>
            /\ DOMAIN tasks = w.spawned_jobs
            /\ \A e \in DOMAIN tasks : tasks[e] = "closed"
            /\ running = {} /\ r_result = <<>>)
    /\ [](\A r \in running : r.engine \in DOMAIN tasks /\ tasks[r.engine] = "recv")
    /\ [][\A e \in DOMAIN tasks :
            tasks[e] # "closed" /\ tasks'[e] = "closed" =>
               /\ EngineIdle(e)
               /\ s_urls.closed /\ s_urls.q = <<>>]_vars

\* start has returned after the limit was reached; its two tasks have
\* closed their backends, one of them after a fetch
C40_Witness ==
    /\ pc = "done"
    /\ ret.kind = "ok"
    /\ limit_hit
    /\ Cardinality(DOMAIN tasks) = 2
    /\ \A e \in DOMAIN tasks : tasks[e] = "closed"
    /\ SumOver(dispatched, AllUrls) >= 1
====
